---- MODULE Spec2Model ----
(***************************************************************************)
(* Claim recovery workflow of zeroriskagent.com, as implemented by the     *)
(* database triggers and table constraints of the SQL migrations.          *)
(*                                                                         *)
(* Two generations of the schema are in the repository:                    *)
(*   "v1"  claims / claim_denials / appeals / recovery_transactions /      *)
(*         payer_knowledge_graph  (migrations 20260111000002..4)           *)
(*   "v2"  claim_tracking / claim_denials / claim_appeals /                *)
(*         recovery_transactions  (migration 20260121_fix_file_uploads_fk) *)
(* The variable schema says which one is deployed; it never changes.       *)
(*                                                                         *)
(* Money is counted in the minor unit (paise, the second decimal of the    *)
(* decimal(12,2) columns); fee percentages in hundredths of a percent      *)
(* (the second decimal of decimal(5,2)); success rates in ten-thousandths  *)
(* (the fourth decimal of decimal(5,4)).                                   *)
(*                                                                         *)
(* One action is one SQL statement with every trigger it fires; a          *)
(* statement whose row, or a row a trigger writes, violates a CHECK        *)
(* constraint raises an error and leaves every table as it was.            *)
(***************************************************************************)
EXTENDS Integers, Sequences, FiniteSets, TLC

\* ------------------------------------------------------------- bounds
\* statements executed in one behaviour
MaxEvents == 3
\* concurrent database sessions
NumSessions == 2
\* rows of appeals / claim_appeals
MaxAppeals == 2
\* rows of recovery_transactions
MaxTx == 1

\* ------------------------------------------------------ SQL vocabulary
\* SQL NULL in a numeric column
NULL == -1
\* OLD.appeal_status of a row that is being inserted (OLD is NULL)
NullStatus == "null"

ClaimStatuses ==
  {"submitted", "under_review", "pending_documents", "approved",
   "partially_approved", "denied", "appealed", "recovered", "written_off"}

AppealStatuses ==
  {"draft", "submitted", "under_review", "additional_info_requested",
   "accepted", "partially_accepted", "rejected", "withdrawn"}

PaymentStatuses == {"pending", "processed", "failed", "disputed"}

\* appeal_level int CHECK (appeal_level BETWEEN 1 AND 3)
MinAppealLevel == 1
MaxAppealLevel == 3
\* agent_fee_percentage decimal(5,2) CHECK (... BETWEEN 0 AND 50)
MaxFeePct == 5000
\* hospitals.recovery_fee_percentage DEFAULT 25.00, the v2 column default too
DefaultFeePct == 2500

\* ------------------------------------------------------------- inputs
ClaimIds == {1}
ClaimedInputs == {2}
ClaimStatusInputs ==
  {"submitted", "denied", "appealed", "recovered", "written_off"}
OutcomeInputs == {NULL, 1, 3}
LevelInputs == {1}
AppealStatusInputs ==
  {"draft", "submitted", "accepted", "partially_accepted", "rejected",
   "withdrawn"}
RecoveryInputs == {1, 3}
FeePctInputs == {NULL, 5001}
FeeAmountInputs == {NULL}
Payers == {"p1"}
ShareAmountInputs == {1, 2, 3, 7, 99, 60000}
SharePctInputs == {NULL, -100, 0, 1, 1250, 3333, 4999, 5000, 5001}
ShareFeeInputs == {NULL, 0, 1, 4}
\* final outcomes of earlier appeals, aggregated before the behaviour starts
PriorOutcomes ==
  {<<>>,
   <<[payer |-> "p1", level |-> 1, status |-> "accepted", outcome |-> 1],
     [payer |-> "p1", level |-> 1, status |-> "rejected", outcome |-> NULL]>>}

VARIABLES
  schema,      \* "v1" or "v2": the deployed schema
  claims,      \* claims / claim_tracking: id -> row
  denials,     \* claim_denials, in insertion order
  appeals,     \* appeals / claim_appeals, in insertion order
  txs,         \* recovery_transactions, in insertion order
  kg,          \* payer_knowledge_graph: pattern key -> row
  aggregated,  \* per appeal: how often update_knowledge_graph_from_appeal
               \* has written a pattern for it
  reapplied,   \* per appeal: how often an UPDATE has written the accepted or
               \* partially_accepted status and outcome amount it already had
  lastError,   \* the statement that raised an error, if the last one did
  nev,         \* statements executed
  sessions,    \* concurrent database sessions: id -> transaction in progress
  kg0          \* payer_knowledge_graph before the concurrent sessions began

vars ==
  <<schema, claims, denials, appeals, txs, kg, aggregated, reapplied,
    lastError, nev, sessions, kg0>>

\* ------------------------------------------------------------ rounding
\* a / b rounded half away from zero, for a >= 0 and b > 0: what ROUND(x, n)
\* and the assignment to a decimal(p, n) column do to a numeric value
RoundDiv(a, b) == (2 * a + b) \div (2 * b)

\* ------------------------------------------------- table constraints
\* the v1 claims table without check_paid_lte_claimed
claims_check_without_paid_lte_claimed(row) ==
  /\ row.claimed >= 0
  /\ (row.approved = NULL \/ row.approved >= 0)
  /\ row.paid >= 0
  /\ (row.approved = NULL \/ row.approved <= row.claimed)

\* CHECK constraints of the v1 claims table
claims_check(row) ==
  /\ row.claimed >= 0
  /\ (row.approved = NULL \/ row.approved >= 0)
  /\ row.paid >= 0
  /\ (row.approved = NULL \/ row.approved <= row.claimed)
  /\ row.paid <= row.claimed

\* CHECK constraints of the v2 claim_tracking table
claim_tracking_check(row) ==
  /\ row.claimed >= 0
  /\ (row.approved = NULL \/ row.approved >= 0)
  /\ row.paid >= 0

\* every row of the deployed claims table satisfies its CHECK constraints
ClaimsTableOk(cl) ==
  \A c \in DOMAIN cl :
    IF schema = "v1" THEN claims_check(cl[c]) ELSE claim_tracking_check(cl[c])

\* CHECK constraints of an appeals / claim_appeals row (same in both schemas)
appeals_check(row) ==
  /\ row.level >= MinAppealLevel /\ row.level <= MaxAppealLevel
  /\ (row.outcome = NULL \/ row.outcome >= 0)

\* the v1 recovery_transactions row with no upper limit on the percentage
recovery_transactions_check_pct_unbounded(row) ==
  /\ row.amount > 0
  /\ row.pct >= 0
  /\ row.fee >= 0
  /\ row.hospital >= 0
  /\ row.fee + row.hospital = row.amount

\* CHECK constraints of a v1 recovery_transactions row
recovery_transactions_check(row) ==
  /\ row.amount > 0
  /\ row.pct >= 0 /\ row.pct <= MaxFeePct
  /\ row.fee >= 0
  /\ row.hospital >= 0
  /\ row.fee + row.hospital = row.amount

\* CHECK constraints of a v2 recovery_transactions row (no check_amounts_sum)
recovery_transactions_v2_check(row) ==
  /\ row.amount > 0
  /\ row.pct >= 0 /\ row.pct <= MaxFeePct
  /\ row.fee >= 0
  /\ row.hospital >= 0

\* CHECK constraints of a payer_knowledge_graph row
payer_knowledge_graph_check(row) ==
  /\ row.occ > 0
  /\ row.succ >= 0
  /\ row.avg >= 0
  /\ row.total >= 0

\* the generated column success_rate decimal(5,4), in ten-thousandths
success_rate(row) ==
  IF row.occ > 0 THEN RoundDiv(row.succ * 10000, row.occ) ELSE 0

\* a payer_knowledge_graph row as stored: GENERATED ALWAYS AS (...) STORED
generated(row) == [row EXCEPT !.rate = success_rate(row)]

\* ---------------------------------------------------- trigger functions
\* the denial trigger without 'appealed' in its NOT IN list
denial_overwrites_appealed(cl, c) ==
  [cl EXCEPT ![c].status =
     IF @ \notin {"recovered", "written_off"} THEN "denied" ELSE @]

\* the denial trigger with no WHERE id = NEW.claim_id
denial_updates_every_claim(cl, c) ==
  [x \in DOMAIN cl |->
     [cl[x] EXCEPT !.status =
        IF @ \notin {"appealed", "recovered", "written_off"}
        THEN "denied" ELSE @]]

\* v1, AFTER INSERT ON claim_denials
auto_update_claim_status_on_denial(cl, c) ==
  [cl EXCEPT ![c].status =
     IF @ \notin {"appealed", "recovered", "written_off"} THEN "denied" ELSE @]

\* v2, AFTER INSERT ON claim_denials
auto_update_claim_on_denial(cl, c) ==
  [cl EXCEPT ![c].status =
     IF @ \notin {"appealed", "recovered", "written_off"} THEN "denied" ELSE @]

\* the v1 appeal trigger with no test of OLD.appeal_status on acceptance
appeal_acceptance_reapplied(cl, old, new) ==
  LET c == new.claim_id
      c1 == IF new.status = "submitted"
               /\ (old = NullStatus \/ old # "submitted")
            THEN [cl EXCEPT ![c].status = "appealed"]
            ELSE cl
  IN IF new.status \in {"accepted", "partially_accepted"}
     THEN [c1 EXCEPT ![c].status = "recovered",
                     ![c].approved = IF new.status = "accepted"
                                     THEN c1[c].claimed
                                     ELSE new.outcome]
     ELSE c1

\* v1, AFTER INSERT OR UPDATE ON appeals; old is OLD.appeal_status
auto_update_claim_status_on_appeal(cl, old, new) ==
  LET c == new.claim_id
      c1 == IF new.status = "submitted"
               /\ (old = NullStatus \/ old # "submitted")
            THEN [cl EXCEPT ![c].status = "appealed"]
            ELSE cl
  IN IF new.status \in {"accepted", "partially_accepted"}
        /\ (old = NullStatus \/ old \notin {"accepted", "partially_accepted"})
     THEN [c1 EXCEPT ![c].status = "recovered",
                     ![c].approved = IF new.status = "accepted"
                                     THEN c1[c].claimed
                                     ELSE new.outcome]
     ELSE c1

\* v2, AFTER INSERT OR UPDATE ON claim_appeals
auto_update_claim_on_appeal(cl, old, new) ==
  LET c == new.claim_id
      c1 == IF new.status = "submitted"
               /\ (old = NullStatus \/ old = "draft")
            THEN [cl EXCEPT ![c].status = "appealed"]
            ELSE cl
  IN IF new.status \in {"accepted", "partially_accepted"}
        /\ (old = NullStatus \/ old \notin {"accepted", "partially_accepted"})
     THEN [c1 EXCEPT ![c].status = "recovered",
                     ![c].approved = IF new.outcome # NULL
                                     THEN new.outcome
                                     ELSE @]
     ELSE c1

\* the guard of update_knowledge_graph_from_appeal: the appeal reaches a
\* final status it did not have
KnowledgeTriggerFires(old, new) ==
  /\ new.status \in {"accepted", "partially_accepted", "rejected"}
  /\ (old = NullStatus
      \/ old \notin {"accepted", "partially_accepted", "rejected"})

\* the key (payer_id, pattern_type, pattern_key) of the appeal's pattern
PatternKey(payer, level) == <<payer, "appeal_success_factor", level>>

COALESCE(x, y) == IF x # NULL THEN x ELSE y

\* the upsert with DO UPDATE leaving occurrence_count as it was
upsert_count_not_incremented(graph, seen, k, delta, outcome) ==
  IF k \in DOMAIN graph
  THEN [graph EXCEPT ![k] = generated(
         [occ |-> @.occ,
          succ |-> @.succ + delta,
          avg |-> RoundDiv(@.avg * @.occ + COALESCE(outcome, 0), @.occ + 1),
          total |-> @.total + COALESCE(outcome, 0),
          rate |-> NULL])]
  ELSE graph @@ (k :> generated(
                        [occ |-> 1,
                         succ |-> delta,
                         avg |-> COALESCE(outcome, 0),
                         total |-> COALESCE(outcome, 0),
                         rate |-> NULL]))

\* the upsert with DO UPDATE leaving success_count as it was
upsert_success_not_counted(graph, seen, k, delta, outcome) ==
  IF k \in DOMAIN graph
  THEN [graph EXCEPT ![k] = generated(
         [occ |-> @.occ + 1,
          succ |-> @.succ,
          avg |-> RoundDiv(@.avg * @.occ + COALESCE(outcome, 0), @.occ + 1),
          total |-> @.total + COALESCE(outcome, 0),
          rate |-> NULL])]
  ELSE graph @@ (k :> generated(
                        [occ |-> 1,
                         succ |-> delta,
                         avg |-> COALESCE(outcome, 0),
                         total |-> COALESCE(outcome, 0),
                         rate |-> NULL]))

\* the upsert with DO UPDATE storing the new outcome amount as the total
upsert_total_replaced(graph, seen, k, delta, outcome) ==
  IF k \in DOMAIN graph
  THEN [graph EXCEPT ![k] = generated(
         [occ |-> @.occ + 1,
          succ |-> @.succ + delta,
          avg |-> RoundDiv(@.avg * @.occ + COALESCE(outcome, 0), @.occ + 1),
          total |-> COALESCE(outcome, 0),
          rate |-> NULL])]
  ELSE graph @@ (k :> generated(
                        [occ |-> 1,
                         succ |-> delta,
                         avg |-> COALESCE(outcome, 0),
                         total |-> COALESCE(outcome, 0),
                         rate |-> NULL]))

\* the INSERT on a table with no UNIQUE (payer_id, pattern_type, pattern_key):
\* no conflict is ever found and every observation stores a row of its own
upsert_row_per_observation(graph, seen, k, delta, outcome) ==
  LET row == generated(
               [occ |-> 1,
                succ |-> delta,
                avg |-> COALESCE(outcome, 0),
                total |-> COALESCE(outcome, 0),
                rate |-> NULL])
  IN IF k \in DOMAIN graph
     THEN graph @@ (Append(k, Cardinality(DOMAIN graph)) :> row)
     ELSE graph @@ (k :> row)

\* the upsert as a read-then-write: it updates (or inserts) from the row of
\* the statement's snapshot, not from the committed row
upsert_read_then_write(graph, seen, k, delta, outcome) ==
  LET row == IF k \in DOMAIN seen
             THEN generated(
                    [occ |-> seen[k].occ + 1,
                     succ |-> seen[k].succ + delta,
                     avg |-> RoundDiv(
                               seen[k].avg * seen[k].occ + COALESCE(outcome, 0),
                               seen[k].occ + 1),
                     total |-> seen[k].total + COALESCE(outcome, 0),
                     rate |-> NULL])
             ELSE generated(
                    [occ |-> 1,
                     succ |-> delta,
                     avg |-> COALESCE(outcome, 0),
                     total |-> COALESCE(outcome, 0),
                     rate |-> NULL])
  IN IF k \in DOMAIN graph
     THEN [graph EXCEPT ![k] = row]
     ELSE graph @@ (k :> row)

\* INSERT INTO payer_knowledge_graph ... ON CONFLICT (...) DO UPDATE SET ...
\* graph is the table as last committed, seen the table as of the statement's
\* snapshot: the conflict is found in, and DO UPDATE reads, the committed row
knowledge_upsert(graph, seen, k, delta, outcome) ==
  IF k \in DOMAIN graph
  THEN [graph EXCEPT ![k] = generated(
         [occ |-> @.occ + 1,
          succ |-> @.succ + delta,
          avg |-> RoundDiv(@.avg * @.occ + COALESCE(outcome, 0), @.occ + 1),
          total |-> @.total + COALESCE(outcome, 0),
          rate |-> NULL])]
  ELSE graph @@ (k :> generated(
                        [occ |-> 1,
                         succ |-> delta,
                         avg |-> COALESCE(outcome, 0),
                         total |-> COALESCE(outcome, 0),
                         rate |-> NULL]))

\* v1, AFTER UPDATE ON appeals
update_knowledge_graph_from_appeal(graph, seen, cl, old, new) ==
  IF KnowledgeTriggerFires(old, new)
  THEN knowledge_upsert(
         graph,
         seen,
         PatternKey(cl[new.claim_id].payer, new.level),
         IF new.status \in {"accepted", "partially_accepted"} THEN 1 ELSE 0,
         new.outcome)
  ELSE graph

KnowledgeTableOk(graph) ==
  \A k \in DOMAIN graph : payer_knowledge_graph_check(graph[k])

\* the pattern table after the final outcomes h of earlier appeals (of other
\* claims of the payer) have been aggregated, one statement each
RECURSIVE KnowledgeAfter(_, _)
KnowledgeAfter(graph, h) ==
  IF h = <<>>
  THEN graph
  ELSE KnowledgeAfter(
         knowledge_upsert(
           graph, graph, PatternKey(h[1].payer, h[1].level),
           IF h[1].status \in {"accepted", "partially_accepted"} THEN 1 ELSE 0,
           h[1].outcome),
         Tail(h))

\* the v1 fee trigger with the fee truncated to the cent, not rounded
revenue_share_truncated(new) ==
  LET pct == IF new.pct = NULL THEN DefaultFeePct ELSE new.pct
      fee == (new.amount * pct) \div 10000
  IN [new EXCEPT !.pct = pct, !.fee = fee, !.hospital = new.amount - fee]

\* v1, BEFORE INSERT ON recovery_transactions; new.pct = NULL when the
\* statement gives no percentage
calculate_revenue_share(new) ==
  LET pct == IF new.pct = NULL THEN DefaultFeePct ELSE new.pct
      fee == RoundDiv(new.amount * pct, 10000)
  IN [new EXCEPT !.pct = pct, !.fee = fee, !.hospital = new.amount - fee]

\* the v2 fee trigger with the hospital's share computed on its own, as the
\* complementary percentage of the recovery amount
agent_fee_shares_rounded_apart(new) ==
  LET fee == IF new.fee = NULL
             THEN RoundDiv(new.amount * new.pct, 10000)
             ELSE new.fee
  IN [new EXCEPT !.fee = fee,
                 !.hospital = RoundDiv(new.amount * (10000 - new.pct), 10000)]

\* v2, BEFORE INSERT OR UPDATE ON recovery_transactions; new.fee = NULL when
\* the statement gives no fee amount
calculate_agent_fee(new) ==
  LET fee == IF new.fee = NULL
             THEN RoundDiv(new.amount * new.pct, 10000)
             ELSE new.fee
  IN [new EXCEPT !.fee = fee, !.hospital = new.amount - fee]

\* v1, AFTER INSERT OR UPDATE OF payment_status ON recovery_transactions
update_claim_on_recovery(cl, new) ==
  IF new.status = "processed"
  THEN [cl EXCEPT
          ![new.claim_id].paid = @ + new.amount,
          ![new.claim_id].status =
             IF cl[new.claim_id].paid + new.amount >= cl[new.claim_id].claimed
             THEN "recovered"
             ELSE @]
  ELSE cl

\* v2, AFTER INSERT OR UPDATE OF payment_status ON recovery_transactions
update_claim_on_recovery_v2(cl, new) ==
  IF new.status = "processed"
  THEN [cl EXCEPT ![new.claim_id].paid = COALESCE(@, 0) + new.amount,
                  ![new.claim_id].status = "recovered"]
  ELSE cl

\* WHEN (NEW.payment_status = 'processed') of trigger_update_claim_on_recovery
trigger_update_claim_on_recovery(cl, new) ==
  IF new.status = "processed"
  THEN IF schema = "v1"
       THEN update_claim_on_recovery(cl, new)
       ELSE update_claim_on_recovery_v2(cl, new)
  ELSE cl

\* --------------------------------------------------------------- state
\* lastError names the statement that raised an error, when the last statement
\* did ("none" otherwise); nev counts the statements executed
NoError == "none"

\* the statement raised an error: nothing is written
Rejected(kind) ==
  /\ lastError' = kind
  /\ nev' = nev + 1
  /\ UNCHANGED <<schema, claims, denials, appeals, txs, kg, aggregated>>
  /\ UNCHANGED <<reapplied, sessions, kg0>>

\* the statement committed
Committed ==
  /\ lastError' = NoError
  /\ nev' = nev + 1
  /\ UNCHANGED <<sessions, kg0>>

Init ==
  /\ schema \in {"v1", "v2"}
  /\ claims \in [ClaimIds -> [claimed : ClaimedInputs,
                              approved : {NULL},
                              paid : {0},
                              status : ClaimStatusInputs,
                              payer : Payers]]
  /\ denials = <<>>
  /\ appeals = <<>>
  /\ txs = <<>>
  /\ kg = <<>>
  /\ aggregated = <<>>
  /\ reapplied = <<>>
  /\ lastError = NoError
  /\ nev = 0
  /\ sessions = <<>>
  /\ kg0 = <<>>

\* ------------------------------------------------------------- actions
\* DenialRecorded: INSERT INTO claim_denials
DenialRecorded(c) ==
  /\ nev < MaxEvents
  /\ LET cl == IF schema = "v1"
               THEN auto_update_claim_status_on_denial(claims, c)
               ELSE auto_update_claim_on_denial(claims, c)
     IN IF ClaimsTableOk(cl)
        THEN /\ denials' = Append(denials, [claim_id |-> c])
             /\ claims' = cl
             /\ Committed
             /\ UNCHANGED <<schema, appeals, txs, kg, aggregated, reapplied>>
        ELSE Rejected("DenialRecorded")

\* the AFTER triggers of a written appeals row, in the order they fire, and
\* the commit or the error of the statement
AppealWritten(kind, i, old, new, isUpdate) ==
  LET cl == IF schema = "v1"
            THEN auto_update_claim_status_on_appeal(claims, old, new)
            ELSE auto_update_claim_on_appeal(claims, old, new)
      fires == schema = "v1" /\ isUpdate /\ KnowledgeTriggerFires(old, new)
      graph == IF schema = "v1" /\ isUpdate
               THEN update_knowledge_graph_from_appeal(kg, kg, cl, old, new)
               ELSE kg
  IN IF appeals_check(new) /\ ClaimsTableOk(cl) /\ KnowledgeTableOk(graph)
     THEN /\ appeals' = IF isUpdate
                        THEN [appeals EXCEPT ![i] = new]
                        ELSE Append(appeals, new)
          /\ aggregated' = IF isUpdate
                           THEN [aggregated EXCEPT
                                   ![i] = IF fires THEN @ + 1 ELSE @]
                           ELSE Append(aggregated, 0)
          /\ reapplied' = IF isUpdate
                          THEN [reapplied EXCEPT
                                  ![i] = IF /\ old \in {"accepted",
                                                        "partially_accepted"}
                                            /\ new = appeals[i]
                                         THEN @ + 1 ELSE @]
                          ELSE Append(reapplied, 0)
          /\ claims' = cl
          /\ kg' = graph
          /\ Committed
          /\ UNCHANGED <<schema, denials, txs>>
     ELSE Rejected(kind)

\* INSERT INTO appeals / claim_appeals
AppealInserted(c, level, status, outcome) ==
  /\ nev < MaxEvents
  /\ Len(appeals) < MaxAppeals
  /\ AppealWritten("AppealInserted", Len(appeals) + 1, NullStatus,
                   [claim_id |-> c, level |-> level, status |-> status,
                    outcome |-> outcome],
                   FALSE)

\* AppealStatusChanged: UPDATE appeals SET appeal_status, outcome_amount
AppealStatusChanged(i, status, outcome) ==
  /\ nev < MaxEvents
  /\ i \in DOMAIN appeals
  /\ AppealWritten("AppealStatusChanged", i, appeals[i].status,
                   [appeals[i] EXCEPT !.status = status, !.outcome = outcome],
                   TRUE)

\* the BEFORE trigger, the row's CHECKs, the AFTER trigger and the commit or
\* the error of a statement that writes a recovery_transactions row
RecoveryWritten(kind, i, row, isUpdate) ==
  LET new == IF schema = "v1"
             THEN IF isUpdate THEN row ELSE calculate_revenue_share(row)
             ELSE calculate_agent_fee(row)
      rowOk == IF schema = "v1"
               THEN recovery_transactions_check(new)
               ELSE recovery_transactions_v2_check(new)
      cl == trigger_update_claim_on_recovery(claims, new)
  IN IF rowOk /\ ClaimsTableOk(cl)
     THEN /\ txs' = IF isUpdate
                    THEN [txs EXCEPT ![i] = new]
                    ELSE Append(txs, new)
          /\ claims' = cl
          /\ Committed
          /\ UNCHANGED <<schema, denials, appeals, kg, aggregated, reapplied>>
     ELSE Rejected(kind)

\* RecoveryTransactionRecorded: INSERT INTO recovery_transactions
RecoveryTransactionRecorded(c, amount, pct, fee, status) ==
  /\ nev < MaxEvents
  /\ Len(txs) < MaxTx
  /\ RecoveryWritten("RecoveryTransactionRecorded", Len(txs) + 1,
                     [claim_id |-> c, amount |-> amount,
                      pct |-> IF schema = "v2" /\ pct = NULL
                              THEN DefaultFeePct ELSE pct,
                      fee |-> IF schema = "v1" THEN NULL ELSE fee,
                      hospital |-> NULL, status |-> status],
                     FALSE)

\* UPDATE recovery_transactions SET payment_status
PaymentStatusChanged(i, status) ==
  /\ nev < MaxEvents
  /\ i \in DOMAIN txs
  /\ RecoveryWritten("PaymentStatusChanged", i,
                     [txs[i] EXCEPT !.status = status], TRUE)

Next ==
  \/ \E c \in ClaimIds : DenialRecorded(c)
  \/ \E c \in ClaimIds, level \in LevelInputs, status \in AppealStatusInputs,
        outcome \in OutcomeInputs :
       AppealInserted(c, level, status, outcome)
  \/ \E i \in 1..MaxAppeals, status \in AppealStatusInputs,
        outcome \in OutcomeInputs :
       AppealStatusChanged(i, status, outcome)
  \/ \E c \in ClaimIds, amount \in RecoveryInputs, pct \in FeePctInputs,
        fee \in FeeAmountInputs, status \in PaymentStatuses :
       RecoveryTransactionRecorded(c, amount, pct, fee, status)
  \/ \E i \in 1..MaxTx, status \in PaymentStatuses :
       PaymentStatusChanged(i, status)

Spec == Init /\ [][Next]_vars

TypeOK ==
  /\ schema \in {"v1", "v2"}
  /\ \A c \in DOMAIN claims : claims[c].status \in ClaimStatuses
  /\ \A i \in DOMAIN appeals :
       /\ appeals[i].claim_id \in DOMAIN claims
       /\ appeals[i].status \in AppealStatuses
  /\ \A i \in DOMAIN txs :
       /\ txs[i].claim_id \in DOMAIN claims
       /\ txs[i].status \in PaymentStatuses
  /\ Len(aggregated) = Len(appeals)
  /\ Len(reapplied) = Len(appeals)
  /\ nev \in 0..MaxEvents

\* ------------------------------------- appeals and the knowledge graph
\* The v1 schema with patterns learnt from earlier appeals of other claims,
\* and, possibly, an appeal of the claim already submitted; the statements
\* are those on appeals, the only ones that read or write a pattern.
InitKnowledge ==
  /\ schema = "v1"
  /\ appeals \in {<<>>,
                  <<[claim_id |-> 1, level |-> 1, status |-> "submitted",
                     outcome |-> NULL]>>}
  /\ claims \in [ClaimIds -> [claimed : ClaimedInputs,
                              approved : {NULL},
                              paid : {0},
                              status : IF appeals = <<>>
                                       THEN ClaimStatusInputs
                                       ELSE {"appealed"},
                              payer : Payers]]
  /\ denials = <<>>
  /\ txs = <<>>
  /\ kg \in {KnowledgeAfter(<<>>, h) : h \in PriorOutcomes}
  /\ aggregated = [i \in DOMAIN appeals |-> 0]
  /\ reapplied = [i \in DOMAIN appeals |-> 0]
  /\ lastError = NoError
  /\ nev = 0
  /\ sessions = <<>>
  /\ kg0 = <<>>

NextKnowledge ==
  \/ \E c \in ClaimIds, level \in LevelInputs, status \in AppealStatusInputs,
        outcome \in OutcomeInputs :
       AppealInserted(c, level, status, outcome)
  \/ \E i \in 1..MaxAppeals, status \in AppealStatusInputs,
        outcome \in OutcomeInputs :
       AppealStatusChanged(i, status, outcome)

SpecKnowledge == InitKnowledge /\ [][NextKnowledge]_vars

\* ------------------------------------- denial, appeal, acceptance (v1)
\* The statements of the recovery scenario on the v1 schema, at any appeal
\* level: a denial, an appeal inserted as submitted, an appeal set to accepted
ScenarioLevels == MinAppealLevel..MaxAppealLevel

InitScenario ==
  /\ InitKnowledge
  /\ appeals = <<>>

NextScenario ==
  \/ \E c \in ClaimIds : DenialRecorded(c)
  \/ \E c \in ClaimIds, level \in ScenarioLevels :
       AppealInserted(c, level, "submitted", NULL)
  \/ \E i \in 1..MaxAppeals, outcome \in OutcomeInputs :
       AppealStatusChanged(i, "accepted", outcome)

SpecScenario == InitScenario /\ [][NextScenario]_vars

\* ----------------------------------------------------------- two claims
\* Two claims of the same payer, each the target of denials, appeals and
\* recovery transactions, one statement at a time
TwoClaimIds == {1, 2}

TwoClaimStatusInputs == {"submitted", "accepted", "partially_accepted"}
TwoClaimOutcomeInputs == {NULL, 1}
TwoClaimRecoveryInputs == {1}

InitTwoClaims ==
  /\ schema \in {"v1", "v2"}
  /\ claims \in [TwoClaimIds -> [claimed : ClaimedInputs,
                                 approved : {NULL},
                                 paid : {0},
                                 status : {"submitted", "denied"},
                                 payer : Payers]]
  /\ denials = <<>>
  /\ appeals = <<>>
  /\ txs = <<>>
  /\ kg = <<>>
  /\ aggregated = <<>>
  /\ reapplied = <<>>
  /\ lastError = NoError
  /\ nev = 0
  /\ sessions = <<>>
  /\ kg0 = <<>>

NextTwoClaims ==
  \/ \E c \in TwoClaimIds : DenialRecorded(c)
  \/ \E c \in TwoClaimIds, level \in LevelInputs,
        status \in TwoClaimStatusInputs, outcome \in TwoClaimOutcomeInputs :
       AppealInserted(c, level, status, outcome)
  \/ \E i \in 1..MaxAppeals, status \in TwoClaimStatusInputs,
        outcome \in TwoClaimOutcomeInputs :
       AppealStatusChanged(i, status, outcome)
  \/ \E c \in TwoClaimIds, amount \in TwoClaimRecoveryInputs,
        status \in {"pending", "processed"} :
       RecoveryTransactionRecorded(c, amount, NULL, NULL, status)
  \/ \E i \in 1..MaxTx : PaymentStatusChanged(i, "processed")

SpecTwoClaims == InitTwoClaims /\ [][NextTwoClaims]_vars

\* --------------------------------------------- the revenue share alone
\* recovery transactions recorded as pending, over a wider range of amounts,
\* percentages and (v2) caller-supplied fee amounts
InitShare ==
  /\ Init
  /\ claims[1].status = "denied"

NextShare ==
  \/ \E c \in ClaimIds, amount \in ShareAmountInputs, pct \in SharePctInputs,
        fee \in ShareFeeInputs :
       RecoveryTransactionRecorded(c, amount, pct, fee, "pending")
  \/ \E i \in 1..MaxTx : PaymentStatusChanged(i, "failed")

SpecShare == InitShare /\ [][NextShare]_vars

\* ------------------------------------------------- concurrent sessions
\* Each session runs one transaction, UPDATE appeals SET appeal_status,
\* outcome_amount WHERE id = <its own appeal>, under READ COMMITTED:
\*   idle -> triggered   the row is written and trigger_update_claim_on_appeal
\*                       has run; the INSERT of
\*                       trigger_update_knowledge_from_appeal has taken its
\*                       snapshot and may be waiting for the pattern row
\*        -> failed      the statement raised an error
\*   triggered -> upserted   the ON CONFLICT DO UPDATE has locked and written
\*                           the pattern row
\*   upserted -> committed   the transaction commits and releases the row
SessionIds == 1..NumSessions

SessionOutcomeInputs == {"accepted", "partially_accepted", "rejected"}

SessionKey(s) ==
  PatternKey(claims[sessions[s].new.claim_id].payer, sessions[s].new.level)

InitConc ==
  /\ schema = "v1"
  /\ claims = [c \in SessionIds |->
                 [claimed |-> 2, approved |-> NULL, paid |-> 0,
                  status |-> "appealed", payer |-> "p1"]]
  /\ denials = <<>>
  /\ appeals = [s \in SessionIds |->
                  [claim_id |-> s, level |-> 1, status |-> "submitted",
                   outcome |-> NULL]]
  /\ txs = <<>>
  /\ kg \in {KnowledgeAfter(<<>>, h) : h \in PriorOutcomes}
  /\ aggregated = [s \in SessionIds |-> 0]
  /\ reapplied = [s \in SessionIds |-> 0]
  /\ lastError = NoError
  /\ nev = 0
  /\ sessions = [s \in SessionIds |->
                   [pc |-> "idle", old |-> NullStatus, new |-> appeals[s],
                    seen |-> <<>>]]
  /\ kg0 = kg

\* the UPDATE of the session's appeal row and the claim trigger
SessionBegin(s, status, outcome) ==
  /\ sessions[s].pc = "idle"
  /\ LET old == appeals[s].status
         new == [appeals[s] EXCEPT !.status = status, !.outcome = outcome]
         cl == auto_update_claim_status_on_appeal(claims, old, new)
     IN IF appeals_check(new) /\ ClaimsTableOk(cl)
        THEN /\ appeals' = [appeals EXCEPT ![s] = new]
             /\ claims' = cl
             /\ sessions' = [sessions EXCEPT
                               ![s] = [pc |-> "triggered", old |-> old,
                                       new |-> new, seen |-> kg]]
        ELSE /\ sessions' = [sessions EXCEPT ![s].pc = "failed"]
             /\ UNCHANGED <<appeals, claims>>
  /\ UNCHANGED <<schema, denials, txs, kg, aggregated, reapplied, lastError,
                 nev, kg0>>

\* the knowledge trigger's INSERT ... ON CONFLICT DO UPDATE, once no other
\* transaction holds the pattern row
SessionUpsert(s) ==
  /\ sessions[s].pc = "triggered"
  /\ \A t \in SessionIds \ {s} :
       ~(sessions[t].pc = "upserted" /\ SessionKey(t) = SessionKey(s))
  /\ kg' = update_knowledge_graph_from_appeal(
             kg, sessions[s].seen, claims, sessions[s].old, sessions[s].new)
  /\ aggregated' = [aggregated EXCEPT
                      ![s] = IF KnowledgeTriggerFires(sessions[s].old,
                                                      sessions[s].new)
                             THEN @ + 1 ELSE @]
  /\ sessions' = [sessions EXCEPT ![s].pc = "upserted"]
  /\ UNCHANGED <<schema, claims, denials, appeals, txs, reapplied, lastError,
                 nev, kg0>>

SessionCommit(s) ==
  /\ sessions[s].pc = "upserted"
  /\ sessions' = [sessions EXCEPT ![s].pc = "committed"]
  /\ UNCHANGED <<schema, claims, denials, appeals, txs, kg, aggregated,
                 reapplied, lastError, nev, kg0>>

NextConc ==
  \/ \E s \in SessionIds, status \in SessionOutcomeInputs,
        outcome \in OutcomeInputs :
       SessionBegin(s, status, outcome)
  \/ \E s \in SessionIds : SessionUpsert(s)
  \/ \E s \in SessionIds : SessionCommit(s)

SpecConc == InitConc /\ [][NextConc]_vars

\* ----------------------------------- concurrent sessions on one claim
\* Each session runs one transaction on the v1 schema under READ COMMITTED,
\* all on claim 1: an INSERT INTO claim_denials, an UPDATE of its own draft
\* appeal, or an INSERT INTO recovery_transactions as processed.
\*   idle -> started      the row is written and the trigger's UPDATE claims
\*                        has taken its snapshot
\*   started -> applied   the UPDATE has locked the claim row, re-read it and
\*           | triggered  written it (triggered: an appeal, whose knowledge
\*           | failed     trigger is still to run), or a CHECK failed and the
\*                        transaction is rolled back
\*   triggered -> upserted -> committed   as above (SessionUpsert, SessionCommit)
\*   applied -> committed
SessionEventInputs ==
  {[kind |-> "denial", status |-> "", outcome |-> NULL, amount |-> NULL],
   [kind |-> "appeal", status |-> "submitted", outcome |-> NULL,
    amount |-> NULL],
   [kind |-> "appeal", status |-> "accepted", outcome |-> NULL,
    amount |-> NULL],
   [kind |-> "appeal", status |-> "partially_accepted", outcome |-> 1,
    amount |-> NULL],
   [kind |-> "recovery", status |-> "processed", outcome |-> NULL,
    amount |-> 1],
   [kind |-> "recovery", status |-> "processed", outcome |-> NULL,
    amount |-> 2]}

\* the claim all the sessions work on
SharedClaim == 1

\* the row a session's statement writes: its appeal as updated, or the
\* recovery transaction after the BEFORE INSERT trigger
SessionAppealRow(s, ev) ==
  [appeals[s] EXCEPT !.status = ev.status, !.outcome = ev.outcome]

SessionRecoveryRow(ev) ==
  calculate_revenue_share(
    [claim_id |-> SharedClaim, amount |-> ev.amount, pct |-> NULL,
     fee |-> NULL, hospital |-> NULL, status |-> ev.status])

\* the trigger's UPDATE claims finds the claim row in its snapshot: always
\* for a recovery, by the WHERE clause for a denial, and only in the branches
\* that run an UPDATE for an appeal
ClaimRowTouched(seen, ev, old) ==
  CASE ev.kind = "denial" ->
         seen[SharedClaim].status
           \notin {"appealed", "recovered", "written_off"}
    [] ev.kind = "appeal" ->
         \/ ev.status = "submitted" /\ old # "submitted"
         \/ /\ ev.status \in {"accepted", "partially_accepted"}
            /\ old \notin {"accepted", "partially_accepted"}
    [] OTHER -> TRUE

\* the trigger's UPDATE computing the new claim row from its snapshot
claim_update_from_snapshot(latest, seen, ev, old, new) ==
  IF ~ClaimRowTouched(seen, ev, old)
  THEN latest
  ELSE CASE ev.kind = "denial" ->
              auto_update_claim_status_on_denial(seen, SharedClaim)
         [] ev.kind = "appeal" ->
              auto_update_claim_status_on_appeal(seen, old, new)
         [] OTHER -> update_claim_on_recovery(seen, new)

\* the trigger's UPDATE claims under READ COMMITTED: a row found in the
\* snapshot is locked, its WHERE clause is checked again on the latest
\* committed version, and SET is computed from that version
claim_update(latest, seen, ev, old, new) ==
  IF ~ClaimRowTouched(seen, ev, old)
  THEN latest
  ELSE CASE ev.kind = "denial" ->
              auto_update_claim_status_on_denial(latest, SharedClaim)
         [] ev.kind = "appeal" ->
              auto_update_claim_status_on_appeal(latest, old, new)
         [] OTHER -> update_claim_on_recovery(latest, new)

\* session t has written the claim row and has not committed
HoldsClaimRow(t) ==
  sessions[t].holds /\ sessions[t].pc \in {"applied", "triggered", "upserted"}

\* the claims table as committed: without the write of the session that
\* holds the claim row
CommittedClaims ==
  IF \E t \in SessionIds : HoldsClaimRow(t)
  THEN sessions[CHOOSE t \in SessionIds : HoldsClaimRow(t)].undo
  ELSE claims

InitClaimConc ==
  /\ schema = "v1"
  /\ claims \in [ClaimIds -> [claimed : ClaimedInputs,
                              approved : {NULL},
                              paid : {0},
                              status : {"submitted", "denied", "appealed"},
                              payer : Payers]]
  /\ denials = <<>>
  /\ appeals = [s \in SessionIds |->
                  [claim_id |-> SharedClaim, level |-> 1, status |-> "draft",
                   outcome |-> NULL]]
  /\ txs = <<>>
  /\ kg = <<>>
  /\ aggregated = [s \in SessionIds |-> 0]
  /\ reapplied = [s \in SessionIds |-> 0]
  /\ lastError = NoError
  /\ nev = 0
  /\ sessions = [s \in SessionIds |->
                   [pc |-> "idle",
                    ev |-> [kind |-> "denial", status |-> "",
                            outcome |-> NULL, amount |-> NULL],
                    old |-> NullStatus, new |-> appeals[s], seen |-> <<>>,
                    snap |-> claims, undo |-> claims, base |-> claims,
                    holds |-> FALSE]]
  /\ kg0 = kg

\* the statement starts: the trigger's UPDATE claims takes its snapshot
ClaimSessionBegin(s, ev) ==
  /\ sessions[s].pc = "idle"
  /\ sessions' = [sessions EXCEPT ![s].pc = "started", ![s].ev = ev,
                                  ![s].snap = CommittedClaims]
  /\ UNCHANGED <<schema, claims, denials, appeals, txs, kg, aggregated,
                 reapplied, lastError, nev, kg0>>

\* the trigger's UPDATE claims, once no other transaction holds the claim
\* row, with the statement's own row; or the error of a CHECK
ClaimSessionApply(s) ==
  /\ sessions[s].pc = "started"
  /\ LET ev == sessions[s].ev
         old == appeals[s].status
         new == IF ev.kind = "appeal"
                THEN SessionAppealRow(s, ev)
                ELSE SessionRecoveryRow(ev)
         touched == ClaimRowTouched(sessions[s].snap, ev, old)
         cl == claim_update(claims, sessions[s].snap, ev, old, new)
         rowOk == CASE ev.kind = "appeal" -> appeals_check(new)
                    [] ev.kind = "recovery" -> recovery_transactions_check(new)
                    [] OTHER -> TRUE
     IN /\ touched => \A t \in SessionIds \ {s} : ~HoldsClaimRow(t)
        /\ IF rowOk /\ ClaimsTableOk(cl)
           THEN /\ claims' = cl
                /\ denials' = IF ev.kind = "denial"
                              THEN Append(denials, [claim_id |-> SharedClaim])
                              ELSE denials
                /\ appeals' = IF ev.kind = "appeal"
                              THEN [appeals EXCEPT ![s] = new]
                              ELSE appeals
                /\ txs' = IF ev.kind = "recovery"
                          THEN Append(txs, new)
                          ELSE txs
                /\ sessions' = [sessions EXCEPT
                                  ![s].pc = IF ev.kind = "appeal"
                                            THEN "triggered" ELSE "applied",
                                  ![s].old = old,
                                  ![s].new = IF ev.kind = "appeal"
                                             THEN new ELSE @,
                                  ![s].seen = kg,
                                  ![s].undo = claims,
                                  ![s].holds = touched]
           ELSE /\ sessions' = [sessions EXCEPT ![s].pc = "failed"]
                /\ UNCHANGED <<claims, denials, appeals, txs>>
  /\ UNCHANGED <<schema, kg, aggregated, reapplied, lastError, nev, kg0>>

\* COMMIT of a denial or a recovery
ClaimSessionCommit(s) ==
  /\ sessions[s].pc = "applied"
  /\ sessions' = [sessions EXCEPT ![s].pc = "committed"]
  /\ UNCHANGED <<schema, claims, denials, appeals, txs, kg, aggregated,
                 reapplied, lastError, nev, kg0>>

NextClaimConc ==
  \/ \E s \in SessionIds, ev \in SessionEventInputs : ClaimSessionBegin(s, ev)
  \/ \E s \in SessionIds : ClaimSessionApply(s)
  \/ \E s \in SessionIds : ClaimSessionCommit(s)
  \/ \E s \in SessionIds : SessionUpsert(s)
  \/ \E s \in SessionIds : SessionCommit(s)

SpecClaimConc == InitClaimConc /\ [][NextClaimConc]_vars

\* ================================================================ claims
TerminalClaimStatuses == {"recovered", "written_off"}
AcceptedStatuses == {"accepted", "partially_accepted"}

\* C1: once a claim's status is recovered or written_off, no step changes it
C1_TerminalStatusAbsorbing ==
  [][\A c \in ClaimIds :
       claims[c].status \in TerminalClaimStatuses
         => claims'[c].status = claims[c].status]_vars

\* C2: every stored recovery transaction has agent fee amount + hospital
\* amount = recovery amount
C2_AmountsSum ==
  \A i \in DOMAIN txs : txs[i].fee + txs[i].hospital = txs[i].amount

\* a stored transaction whose fee was rounded up from a half
C2_Witness ==
  \E i \in DOMAIN txs :
    /\ txs[i].amount = 3
    /\ txs[i].pct = 5000
    /\ txs[i].fee = 2
    /\ txs[i].hospital = 1

\* C3: every claim has paid_amount <= claimed_amount, after every event
C3_PaidLteClaimed ==
  \A c \in ClaimIds : claims[c].paid <= claims[c].claimed

\* C4: setting payment_status to processed on a transaction that is already
\* processed succeeds and leaves the claim as the first application left it
C4_ReplayIsNoOp ==
  [][\A i \in 1..MaxTx :
       (/\ i \in DOMAIN txs
        /\ txs[i].status = "processed"
        /\ PaymentStatusChanged(i, "processed"))
         => (lastError' = NoError /\ claims' = claims)]_vars

Occurrences(graph, k) == IF k \in DOMAIN graph THEN graph[k].occ ELSE 0

\* C5: when every concurrent session has ended, the pattern's
\* occurrence_count is its value before the sessions plus the number of
\* sessions whose terminal outcome was applied
C5_NoLostUpdate ==
  (\A s \in SessionIds : sessions[s].pc \in {"committed", "failed"})
    => LET k == PatternKey("p1", 1)
       IN Occurrences(kg, k) =
            Occurrences(kg0, k)
              + Cardinality({s \in SessionIds : sessions[s].pc = "committed"})

\* every session has committed after two of them were in their transactions
\* at once, on a pattern that existed before
C5_Witness ==
  /\ \A s \in SessionIds : sessions[s].pc = "committed"
  /\ \A s \in SessionIds : PatternKey("p1", 1) \in DOMAIN sessions[s].seen
  /\ \E s, t \in SessionIds :
       /\ s # t
       /\ Occurrences(sessions[s].seen, PatternKey("p1", 1))
            = Occurrences(sessions[t].seen, PatternKey("p1", 1))

\* C6: the aggregator runs at most once for each appeal
C6_AggregatedAtMostOnce ==
  \A i \in DOMAIN aggregated : aggregated[i] <= 1

\* C7 as stated: success_count <= occurrence_count, occurrence_count >= 1 and
\* success_rate = success_count / occurrence_count, for every pattern
C7_SuccessRateExact ==
  \A k \in DOMAIN kg :
    /\ kg[k].succ <= kg[k].occ
    /\ kg[k].occ >= 1
    /\ kg[k].rate * kg[k].occ = kg[k].succ * 10000

\* C7 amended: success_count <= occurrence_count, occurrence_count >= 1 and
\* success_rate is success_count / occurrence_count rounded to the nearest
\* ten-thousandth (within half a ten-thousandth of the quotient)
C7_SuccessRateRounded ==
  \A k \in DOMAIN kg :
    /\ kg[k].succ <= kg[k].occ
    /\ kg[k].occ >= 1
    /\ 2 * (kg[k].rate * kg[k].occ - kg[k].succ * 10000) <= kg[k].occ
    /\ 2 * (kg[k].succ * 10000 - kg[k].rate * kg[k].occ) <= kg[k].occ

\* a pattern with three occurrences, one of them a success, written by the
\* aggregator during the behaviour
C7_Witness ==
  /\ \E i \in DOMAIN aggregated : aggregated[i] >= 1
  /\ \E k \in DOMAIN kg : kg[k].occ = 3 /\ kg[k].succ = 1 /\ kg[k].rate = 3333

\* the step is an AppealSubmitted event on claim c: an appeal of c is written
\* with status submitted that it did not have
AppealSubmittedStep(c) ==
  \/ \E level \in LevelInputs, outcome \in OutcomeInputs :
       AppealInserted(c, level, "submitted", outcome)
  \/ \E i \in 1..MaxAppeals, outcome \in OutcomeInputs :
       /\ i \in DOMAIN appeals
       /\ appeals[i].claim_id = c
       /\ appeals[i].status # "submitted"
       /\ AppealStatusChanged(i, "submitted", outcome)

\* C8: AppealSubmitted on a recovered or written_off claim is rejected and
\* leaves the claim (and the appeals) as they were
C8_AppealOnTerminalRejected ==
  [][\A c \in ClaimIds :
       (claims[c].status \in TerminalClaimStatuses /\ AppealSubmittedStep(c))
         => (/\ lastError' # NoError
             /\ claims' = claims
             /\ appeals' = appeals)]_vars

\* C9: DenialRecorded stores the denial, and sets the claim's status to denied
\* exactly when the status is not appealed, recovered or written_off;
\* otherwise the status is unchanged
C9_DenialGuard ==
  [][\A c \in ClaimIds :
       DenialRecorded(c)
         => (/\ lastError' = NoError
             /\ denials' = Append(denials, [claim_id |-> c])
             /\ claims'[c].status =
                  IF claims[c].status
                       \notin {"appealed", "recovered", "written_off"}
                  THEN "denied"
                  ELSE claims[c].status
             /\ (claims[c].status \in {"appealed", "recovered", "written_off"}
                   => claims'[c] = claims[c]))]_vars

\* a denial stored for a claim that was, and still is, appealed
C9_Witness ==
  /\ denials # <<>>
  /\ appeals = <<>>
  /\ txs = <<>>
  /\ claims[1].status = "appealed"

\* the step leaves appeal i accepted or partially_accepted, which it was not
BecomesAccepted(i) ==
  /\ i \in DOMAIN appeals'
  /\ appeals'[i].status \in AcceptedStatuses
  /\ (i \notin DOMAIN appeals \/ appeals[i].status \notin AcceptedStatuses)

\* C10: when an appeal becomes accepted or partially_accepted, its claim
\* becomes recovered, with approved = claimed (accepted) or = the appeal's
\* outcome amount (partially_accepted)
C10_AcceptedSetsApproved ==
  [][\A i \in 1..MaxAppeals :
       BecomesAccepted(i)
         => LET a == appeals'[i]
            IN /\ claims'[a.claim_id].status = "recovered"
               /\ claims'[a.claim_id].approved =
                    IF a.status = "accepted"
                    THEN claims[a.claim_id].claimed
                    ELSE a.outcome]_vars

\* C11: an UPDATE that writes to an appeal the accepted or partially_accepted
\* status and the outcome amount it already has succeeds and leaves the
\* claim's status and approved amount as they were, whatever happened to the
\* claim since the outcome was first applied
C11_ReapplyIdempotent ==
  [][\A i \in 1..MaxAppeals, status \in AcceptedStatuses,
        outcome \in OutcomeInputs :
       (/\ i \in DOMAIN appeals
        /\ appeals[i].status = status
        /\ appeals[i].outcome = outcome
        /\ AppealStatusChanged(i, status, outcome))
         => (/\ lastError' = NoError
             /\ claims'[appeals[i].claim_id].status
                  = claims[appeals[i].claim_id].status
             /\ claims'[appeals[i].claim_id].approved
                  = claims[appeals[i].claim_id].approved)]_vars

\* an accepted outcome was applied again after another appeal of the claim had
\* been submitted in between: the claim is still appealed
C11_Witness ==
  \E i \in DOMAIN appeals :
    /\ reapplied[i] >= 1
    /\ appeals[i].status \in AcceptedStatuses
    /\ claims[appeals[i].claim_id].status = "appealed"

\* the step leaves recovery transaction i processed, which it was not
BecomesProcessed(i) ==
  /\ i \in DOMAIN txs'
  /\ txs'[i].status = "processed"
  /\ (i \notin DOMAIN txs \/ txs[i].status # "processed")

\* C12: when a recovery transaction becomes processed, the claim's paid amount
\* grows by exactly the recovery amount, and its status becomes recovered if
\* the new paid amount is >= the claimed amount and is unchanged otherwise
C12_ProcessedAddsAmount ==
  [][\A i \in 1..MaxTx :
       BecomesProcessed(i)
         => LET c == txs'[i].claim_id
            IN /\ claims'[c].paid = claims[c].paid + txs'[i].amount
               /\ claims'[c].status =
                    IF claims'[c].paid >= claims[c].claimed
                    THEN "recovered"
                    ELSE claims[c].status]_vars

C14_SplitRounds ==
  [][\A c \in ClaimIds, amount \in ShareAmountInputs, pct \in SharePctInputs :
       (/\ lastError' = NoError
        /\ RecoveryTransactionRecorded(c, amount, pct, NULL, "pending"))
         => LET t == txs'[Len(txs')]
                p == IF pct = NULL THEN DefaultFeePct ELSE pct
            IN /\ t.amount = amount
               /\ t.pct = p
               /\ 2 * (t.fee * 10000 - amount * p) <= 10000
               /\ 2 * (amount * p - t.fee * 10000) < 10000
               /\ t.hospital = amount - t.fee]_vars

\* 60000 at 25 percent is stored as 15000 and 45000
C14_Witness ==
  \E i \in DOMAIN txs :
    /\ txs[i].amount = 60000
    /\ txs[i].pct = 2500
    /\ txs[i].fee = 15000
    /\ txs[i].hospital = 45000

\* C15: a recovery transaction whose fee percentage is outside [0, 50] is
\* rejected: no transaction is stored and the claim is unchanged
C15_FeePctOutOfRangeRejected ==
  [][\A c \in ClaimIds, amount \in ShareAmountInputs, pct \in SharePctInputs,
        fee \in ShareFeeInputs :
       (/\ pct # NULL
        /\ (pct < 0 \/ pct > MaxFeePct)
        /\ RecoveryTransactionRecorded(c, amount, pct, fee, "pending"))
         => (/\ lastError' = "RecoveryTransactionRecorded"
             /\ txs' = txs
             /\ claims' = claims)]_vars

\* the v1 insert was rejected (the trigger computes the fee, so only the
\* percentage can be at fault): nothing is stored and nothing was paid
C15_Witness ==
  /\ schema = "v1"
  /\ lastError = "RecoveryTransactionRecorded"
  /\ txs = <<>>
  /\ \A c \in DOMAIN claims : claims[c].paid = 0

\* the three steps of the scenario on claim c, the first one taken from a
\* status outside excluded: DenialRecorded gives denied; AppealSubmitted at
\* any level then gives appealed; AppealStatusChanged(accepted) then gives
\* recovered with approved = claimed, and adds exactly 1 occurrence and
\* 1 success to the pattern of the payer and the level, and to no other
ScenarioSteps(c, excluded) ==
  /\ (/\ nev = 0
      /\ claims[c].status \notin excluded
      /\ DenialRecorded(c))
       => (lastError' = NoError /\ claims'[c].status = "denied")
  /\ \A level \in ScenarioLevels :
       (/\ nev = 1
        /\ Len(denials) = 1
        /\ claims[c].status = "denied"
        /\ AppealInserted(c, level, "submitted", NULL))
         => (lastError' = NoError /\ claims'[c].status = "appealed")
  /\ \A outcome \in OutcomeInputs :
       (/\ nev = 2
        /\ Len(denials) = 1
        /\ Len(appeals) = 1
        /\ appeals[1].status = "submitted"
        /\ claims[c].status = "appealed"
        /\ AppealStatusChanged(1, "accepted", outcome))
         => LET k == PatternKey(claims[c].payer, appeals[1].level)
            IN /\ lastError' = NoError
               /\ claims'[c].status = "recovered"
               /\ claims'[c].approved = claims[c].claimed
               /\ k \in DOMAIN kg'
               /\ kg'[k].occ = Occurrences(kg, k) + 1
               /\ kg'[k].succ = (IF k \in DOMAIN kg THEN kg[k].succ ELSE 0) + 1
               /\ \A j \in DOMAIN kg' \ {k} : j \in DOMAIN kg /\ kg'[j] = kg[j]

\* C16 as stated: from any non-terminal status, the sequence DenialRecorded,
\* AppealSubmitted (level L), AppealStatusChanged(accepted) takes the claim
\* through denied, appealed and recovered with approved = claimed, and adds
\* exactly 1 occurrence and 1 success to the pattern (payer, level L)
C16_ScenarioFromNonTerminal ==
  [][\A c \in ClaimIds : ScenarioSteps(c, TerminalClaimStatuses)]_vars

\* C16 amended: the same from any status that is not appealed, recovered or
\* written_off (a denial leaves an appealed claim appealed)
C16_ScenarioFromUnresolved ==
  [][\A c \in ClaimIds :
       ScenarioSteps(c, {"appealed", "recovered", "written_off"})]_vars

\* the scenario has run at level 1 on a pattern that had two occurrences and
\* one success
C16_Witness ==
  /\ nev = 3
  /\ Len(denials) = 1
  /\ Len(appeals) = 1
  /\ appeals[1].status = "accepted"
  /\ aggregated[1] = 1
  /\ claims[1].status = "recovered"
  /\ claims[1].approved = claims[1].claimed
  /\ PatternKey("p1", 1) \in DOMAIN kg
  /\ kg[PatternKey("p1", 1)].occ = 3
  /\ kg[PatternKey("p1", 1)].succ = 2

TerminalAppealStatuses ==
  {"accepted", "partially_accepted", "rejected", "withdrawn"}

\* C17: an attempt to change the status of an appeal that is accepted,
\* partially_accepted, rejected or withdrawn leaves the appeal, its claim and
\* the knowledge patterns unchanged
C17_TerminalAppealAbsorbing ==
  [][\A i \in 1..MaxAppeals, status \in AppealStatusInputs,
        outcome \in OutcomeInputs :
       (/\ i \in DOMAIN appeals
        /\ appeals[i].status \in TerminalAppealStatuses
        /\ status # appeals[i].status
        /\ AppealStatusChanged(i, status, outcome))
         => (/\ appeals'[i] = appeals[i]
             /\ claims'[appeals[i].claim_id] = claims[appeals[i].claim_id]
             /\ kg' = kg)]_vars

\* C18: a claim's paid amount is never increased before a denial of the claim
\* has been recorded or an appeal of the claim has been accepted (a claim
\* whose status is no longer submitted had one before the behaviour began)
C18_RecoveryAfterDenialOrAcceptance ==
  [][\A c \in ClaimIds :
       claims'[c].paid > claims[c].paid
         => (\/ claims[c].status # "submitted"
             \/ \E d \in DOMAIN denials : denials[d].claim_id = c
             \/ \E i \in DOMAIN appeals :
                  /\ appeals[i].claim_id = c
                  /\ appeals[i].status \in AcceptedStatuses)]_vars

PermittedPaymentTransitions ==
  {<<"pending", "processed">>, <<"pending", "failed">>,
   <<"processed", "disputed">>}

\* C20: a recovery transaction's payment_status changes only along
\* pending -> processed, pending -> failed or processed -> disputed
C20_PaymentStatusTransitions ==
  [][\A i \in DOMAIN txs :
       txs'[i].status # txs[i].status
         => <<txs[i].status, txs'[i].status>>
              \in PermittedPaymentTransitions]_vars

\* the claims table after session s's statement has run alone on cl: as
\* written by its trigger, or cl itself when a CHECK fails
SerialApply(cl, s) ==
  LET ev == sessions[s].ev
      new == IF ev.kind = "appeal"
             THEN [claim_id |-> SharedClaim, level |-> 1,
                   status |-> ev.status, outcome |-> ev.outcome]
             ELSE SessionRecoveryRow(ev)
      after == claim_update(cl, cl, ev, "draft", new)
      rowOk == CASE ev.kind = "appeal" -> appeals_check(new)
                 [] ev.kind = "recovery" -> recovery_transactions_check(new)
                 [] OTHER -> TRUE
  IN IF rowOk /\ ClaimsTableOk(after) THEN after ELSE cl

\* the claims table after the statements of the sessions order[1..n] have run
\* one at a time, in that order, on cl
RECURSIVE SerialClaims(_, _, _)
SerialClaims(cl, order, n) ==
  IF n = 0
  THEN cl
  ELSE SerialApply(SerialClaims(cl, order, n - 1), order[n])

SessionOrders ==
  {order \in [SessionIds -> SessionIds] :
     \A a, b \in SessionIds : order[a] = order[b] => a = b}

\* C19: when every concurrent session on the claim has ended, the claim is as
\* some order of the sessions' statements, run one at a time, leaves it; and
\* it is not denied if an appeal was submitted by one of the sessions
C19_ClaimSerializable ==
  (\A s \in SessionIds : sessions[s].pc \in {"committed", "failed"})
    => /\ \E order \in SessionOrders :
            claims = SerialClaims(sessions[1].base, order, NumSessions)
       /\ (\E s \in SessionIds :
             /\ sessions[s].pc = "committed"
             /\ sessions[s].ev.kind = "appeal"
             /\ sessions[s].ev.status = "submitted")
            => claims[SharedClaim].status # "denied"

\* two processed recoveries whose statements both started before either had
\* written the claim have committed, and both amounts are in paid_amount
C19_Witness ==
  /\ \A s \in SessionIds : sessions[s].pc = "committed"
  /\ \E s, t \in SessionIds :
       /\ s # t
       /\ sessions[s].ev.kind = "recovery"
       /\ sessions[t].ev.kind = "recovery"
       /\ sessions[s].snap[SharedClaim].paid = 0
       /\ sessions[t].snap[SharedClaim].paid = 0
       /\ claims[SharedClaim].paid
            >= sessions[s].ev.amount + sessions[t].ev.amount

\* C21: every claim has paid >= 0 and, when approved is set, 0 <= approved
\* and approved <= claimed, after every event
C21_AmountsWithinClaimed ==
  \A c \in DOMAIN claims :
    /\ claims[c].paid >= 0
    /\ (claims[c].approved # NULL
          => (claims[c].approved >= 0
              /\ claims[c].approved <= claims[c].claimed))

\* the final outcomes aggregated before the sessions began
PriorOf(graph) ==
  CHOOSE h \in PriorOutcomes : KnowledgeAfter(<<>>, h) = graph

\* the sessions whose outcome the aggregator has processed
Aggregated == {s \in SessionIds : sessions[s].pc \in {"upserted", "committed"}}

\* over the first n outcomes of h: how many are successes, and their amounts
\* (0 when absent) added up
RECURSIVE PriorSuccesses(_, _)
PriorSuccesses(h, n) ==
  IF n = 0
  THEN 0
  ELSE PriorSuccesses(h, n - 1)
         + (IF h[n].status \in AcceptedStatuses THEN 1 ELSE 0)

RECURSIVE PriorTotal(_, _)
PriorTotal(h, n) ==
  IF n = 0 THEN 0 ELSE PriorTotal(h, n - 1) + COALESCE(h[n].outcome, 0)

\* the same over the aggregated sessions among 1..n
RECURSIVE SessionSuccesses(_)
SessionSuccesses(n) ==
  IF n = 0
  THEN 0
  ELSE SessionSuccesses(n - 1)
         + (IF n \in Aggregated /\ sessions[n].new.status \in AcceptedStatuses
            THEN 1 ELSE 0)

RECURSIVE SessionTotal(_)
SessionTotal(n) ==
  IF n = 0
  THEN 0
  ELSE SessionTotal(n - 1)
         + (IF n \in Aggregated
            THEN COALESCE(sessions[n].new.outcome, 0) ELSE 0)

\* C22: after the aggregator has processed n final outcomes for a pattern key,
\* starting from no pattern, the pattern has occurrence_count = n,
\* success_count = the number of accepted or partially_accepted ones among
\* them and total_recovery_amount = the sum of their outcome amounts (0 when
\* absent); with n = 0 there is no pattern
C22_AggregatorCounts ==
  LET k == PatternKey("p1", 1)
      h == PriorOf(kg0)
      n == Len(h) + Cardinality(Aggregated)
  IN IF n = 0
     THEN k \notin DOMAIN kg
     ELSE /\ k \in DOMAIN kg
          /\ kg[k].occ = n
          /\ kg[k].succ = PriorSuccesses(h, Len(h)) + SessionSuccesses(NumSessions)
          /\ kg[k].total = PriorTotal(h, Len(h)) + SessionTotal(NumSessions)

\* four outcomes processed, two by concurrent sessions: a rejection with no
\* amount and a partial acceptance of 1
C22_Witness ==
  /\ \A s \in SessionIds : sessions[s].pc = "committed"
  /\ Len(PriorOf(kg0)) = 2
  /\ \E s \in SessionIds :
       sessions[s].new.status = "rejected" /\ sessions[s].new.outcome = NULL
  /\ \E s \in SessionIds :
       sessions[s].new.status = "partially_accepted"
         /\ sessions[s].new.outcome = 1
  /\ kg[PatternKey("p1", 1)].occ = 4
  /\ kg[PatternKey("p1", 1)].succ = 2
  /\ kg[PatternKey("p1", 1)].total = 2

\* the keys (payer, pattern type, pattern key) of the appeals' patterns
ObservedKeys ==
  {PatternKey(claims[appeals[i].claim_id].payer, appeals[i].level) :
     i \in DOMAIN appeals}

\* C23: the pattern table holds at most one record for each (payer, pattern
\* type, pattern key), also after sessions have observed a key for the first
\* time concurrently; no step deletes a pattern or lowers its
\* occurrence_count
C23_OnePatternPerKey ==
  [][/\ DOMAIN kg \subseteq ObservedKeys
     /\ DOMAIN kg' \subseteq ObservedKeys'
     /\ Cardinality(DOMAIN kg') <= Cardinality(ObservedKeys')
     /\ \A k \in DOMAIN kg :
          /\ k \in DOMAIN kg'
          /\ kg'[k].occ >= kg[k].occ]_vars

\* every session saw no pattern when its statement began, and all of them
\* have committed: one record holds all the observations
C23_Witness ==
  /\ \A s \in SessionIds :
       sessions[s].pc = "committed" /\ sessions[s].seen = <<>>
  /\ DOMAIN kg = {PatternKey("p1", 1)}
  /\ kg[PatternKey("p1", 1)].occ = NumSessions

\* the step is a statement on claim c: a denial, an appeal written, or a
\* recovery transaction written
EventOnClaim(c) ==
  \/ DenialRecorded(c)
  \/ \E level \in LevelInputs, status \in TwoClaimStatusInputs,
        outcome \in TwoClaimOutcomeInputs :
       AppealInserted(c, level, status, outcome)
  \/ \E i \in 1..MaxAppeals, status \in TwoClaimStatusInputs,
        outcome \in TwoClaimOutcomeInputs :
       /\ i \in DOMAIN appeals
       /\ appeals[i].claim_id = c
       /\ AppealStatusChanged(i, status, outcome)
  \/ \E amount \in TwoClaimRecoveryInputs, status \in {"pending", "processed"} :
       RecoveryTransactionRecorded(c, amount, NULL, NULL, status)
  \/ \E i \in 1..MaxTx :
       /\ i \in DOMAIN txs
       /\ txs[i].claim_id = c
       /\ PaymentStatusChanged(i, "processed")

\* C24: a statement on one claim leaves the status, the approved amount and
\* the paid amount of every other claim as they were
C24_OtherClaimsUntouched ==
  [][\A c \in TwoClaimIds, other \in TwoClaimIds :
       (other # c /\ EventOnClaim(c))
         => (/\ claims'[other].status = claims[other].status
             /\ claims'[other].approved = claims[other].approved
             /\ claims'[other].paid = claims[other].paid)]_vars

\* claim 1 has been denied, appealed and recovered by an accepted appeal while
\* claim 2 is as it was created
C24_Witness ==
  /\ \E d \in DOMAIN denials : denials[d].claim_id = 1
  /\ \E i \in DOMAIN appeals :
       appeals[i].claim_id = 1 /\ appeals[i].status = "accepted"
  /\ \A i \in DOMAIN appeals : appeals[i].claim_id = 1
  /\ claims[1].status = "recovered"
  /\ claims[2].status = "submitted"
  /\ claims[2].approved = NULL
  /\ claims[2].paid = 0

\* C25: every appeal has a level in 1..3, and a level strictly greater than
\* that of every appeal created earlier for the same claim
C25_AppealLevelsIncrease ==
  /\ \A i \in DOMAIN appeals :
       appeals[i].level \in MinAppealLevel..MaxAppealLevel
  /\ \A i, j \in DOMAIN appeals :
       (i < j /\ appeals[i].claim_id = appeals[j].claim_id)
         => appeals[i].level < appeals[j].level

\* the recovery amounts of the first n transactions that are of claim c and
\* processed, added up
RECURSIVE ProcessedTotal(_, _)
ProcessedTotal(c, n) ==
  IF n = 0
  THEN 0
  ELSE ProcessedTotal(c, n - 1)
         + (IF txs[n].claim_id = c /\ txs[n].status = "processed"
            THEN txs[n].amount ELSE 0)

\* C26: a claim's paid amount is its paid amount at creation (0) plus the
\* recovery amounts of its transactions that are processed now
C26_PaidIsProcessedTotal ==
  \A c \in DOMAIN claims : claims[c].paid = ProcessedTotal(c, Len(txs))

\* C27: every appeal whose status is accepted, partially_accepted or rejected
\* has been counted exactly once in its pattern, whether the status was set
\* by an UPDATE or by the INSERT of the appeal; so the pattern exists
C27_FinalOutcomeCountedOnce ==
  \A i \in DOMAIN appeals :
    appeals[i].status \in {"accepted", "partially_accepted", "rejected"}
      => /\ aggregated[i] = 1
         /\ PatternKey(claims[appeals[i].claim_id].payer, appeals[i].level)
              \in DOMAIN kg

\* C28: a claim becomes recovered only with paid amount >= claimed amount or
\* with an appeal that is accepted or partially_accepted; a partial payment
\* alone does not make it recovered
C28_RecoveredIsPaidOrAccepted ==
  [][\A c \in DOMAIN claims :
       (claims[c].status # "recovered" /\ claims'[c].status = "recovered")
         => (\/ claims'[c].paid >= claims'[c].claimed
             \/ \E i \in DOMAIN appeals' :
                  /\ appeals'[i].claim_id = c
                  /\ appeals'[i].status \in AcceptedStatuses)]_vars

\* C29: every pattern's avg_recovery_amount is its total_recovery_amount
\* divided by its occurrence_count, rounded to the minor unit
C29_AvgIsTotalOverCount ==
  \A k \in DOMAIN kg : kg[k].avg = RoundDiv(kg[k].total, kg[k].occ)

\* C30: every stored recovery transaction has 0 <= agent fee amount <=
\* hospital amount
C30_FeeAtMostHospitalShare ==
  \A i \in DOMAIN txs :
    /\ txs[i].fee >= 0
    /\ txs[i].fee <= txs[i].hospital

====
